---- MODULE Spec2Model ----
(***************************************************************************)
(* Model of the two view components of                                     *)
(* components/two-factor-authentication/TwoFactorAuthenticationModal.tsx:  *)
(*   - TwoFactorAuthenticationModal (lines 29-233): the 2FA challenge      *)
(*     modal driving the pending authentication promise;                   *)
(*   - StyledUpdate (lines 348-608): the update post with its edit and     *)
(*     delete mutations.                                                   *)
(* Three specifications share the variables:                               *)
(*   Spec               the modal,                                         *)
(*   SpecInitialMethod  the pure function initialMethod on drawn inputs,   *)
(*   SpecUpdate         the StyledUpdate component.                        *)
(***************************************************************************)
EXTENDS Integers, Sequences, FiniteSets, TLC

VARIABLES
    \* ---- TwoFactorAuthenticationContext (the prompt handed to the modal)
    prompt,             \* [isOpen, supportedMethods, allowRecovery]
    promise,            \* the pending authentication promise
    \* ---- TwoFactorAuthenticationModal
    selectedMethod,     \* React state, line 58
    twoFactorCode,      \* React state, line 59
    confirming,         \* React state, line 60
    webauthnInFlight,   \* startAuthentication calls awaiting the browser
    staleInFlight,      \* those of them started under an earlier prompt
    preferredMethod,    \* local storage PREFERRED_TWO_FACTOR_METHOD
    toastShown,         \* the last toast shown
    lastAuthCall,       \* the last call of prompt.resolveAuth / rejectAuth
    authCallCount,      \* resolveAuth / rejectAuth calls made for this prompt: by
                        \* the handlers of its open dialog and by the WebAuthn
                        \* attempts started under it
    \* ---- initialMethod called on drawn inputs
    im,
    \* ---- StyledUpdate
    mode,               \* this.state.mode
    modified,           \* this.state.modified
    updateId,           \* this.props.update.id
    editPending,        \* editUpdate mutations in flight
    deletePending,      \* deleteUpdate mutations in flight
    deletesSent,        \* deleteUpdate mutations sent so far
    pushedRoutes,       \* Router.pushRoute calls
    errorsLogged,       \* console.error calls of deleteUpdate
    \* ---- history
    lastOp              \* the handler that ran last

modalVars == <<prompt, promise, selectedMethod, twoFactorCode, confirming,
               webauthnInFlight, staleInFlight, preferredMethod, toastShown,
               lastAuthCall, authCallCount>>
updateVars == <<mode, modified, updateId, editPending, deletePending,
                deletesSent, pushedRoutes, errorsLogged>>
vars == <<prompt, promise, selectedMethod, twoFactorCode, confirming,
          webauthnInFlight, staleInFlight, preferredMethod, toastShown,
          lastAuthCall, authCallCount, im, mode, modified, updateId, editPending,
          deletePending, deletesSent, pushedRoutes, errorsLogged, lastOp>>

---------------------------------------------------------------------------
\* Bounds of the model.
MaxInFlight == 2
MaxPending == 2
MaxDeletes == 2

\* Program constants.
TotpLength == 6

\* JavaScript's two empty values, as method values.
Null == "null"
Undefined == "undefined"

Methods == {"totp", "webauthn", "recovery_code"}

TWO_FACTOR_AUTH_CANCELED == "TWO_FACTOR_AUTH_CANCELED"

\* Sequences of distinct methods: the lists a prompt can carry.
MethodLists ==
    {s \in UNION {[1..n -> Methods] : n \in 0..Cardinality(Methods)} :
        \A i, j \in 1..Len(s) : i # j => s[i] # s[j]}

Range(s) == {s[i] : i \in 1..Len(s)}

\* Codes a user can type: the empty one, a short one, 6-digit ones.
Digits == {"1", "2"}
Codes == {<<>>} \cup {[i \in 1..n |-> d] : n \in {1, TotpLength}, d \in Digits}

\* Assertions the browser's authenticator can return, and error messages.
AuthenticationResponses == {"assertion"}
WebAuthnErrors == {"NotAllowedError"}

---------------------------------------------------------------------------
\* Array.prototype.find with the test "method === v": the first element
\* equal to v, or undefined.
FindEqual(s, v) ==
    LET hits == {i \in 1..Len(s) : s[i] = v}
    IN  IF hits = {} THEN Undefined
        ELSE s[CHOOSE i \in hits : \A j \in hits : i <= j]

\* Array.prototype.find with the test "method !== v".
FindNotEqual(s, v) ==
    LET hits == {i \in 1..Len(s) : s[i] # v}
    IN  IF hits = {} THEN Undefined
        ELSE s[CHOOSE i \in hits : \A j \in hits : i <= j]

\* a || b on method values: b when a is falsy (undefined, null).
OrElse(a, b) == IF a \in {Undefined, Null} THEN b ELSE a

\* initialMethod with the stored preference ignored.
initialMethod_NoPreference(hasList, supported, stored) ==
    IF ~hasList THEN Null
    ELSE IF Len(supported) = 1 THEN supported[1]
    ELSE FindNotEqual(supported, "recovery_code")

\* initialMethod (lines 29-42). hasList is FALSE for a null / undefined
\* argument; stored is what getFromLocalStorage returns.
initialMethod(hasList, supported, stored) ==
    IF ~hasList THEN Null
    ELSE IF Len(supported) = 1 THEN supported[1]
    ELSE OrElse(FindEqual(supported, stored),
                FindNotEqual(supported, "recovery_code"))

\* The supportedMethods memo (lines 50-54): recovery_code is dropped unless
\* the prompt allows recovery.
supportedMethodsOf(raw, allowRecovery) ==
    SelectSeq(raw, LAMBDA m : m # "recovery_code" \/ allowRecovery)

supportedMethods == supportedMethodsOf(prompt.supportedMethods, prompt.allowRecovery)

\* verifyBtnEnabled (lines 125-129).
verifyBtnEnabled ==
    /\ Len(supportedMethods) > 0
    /\ \/ selectedMethod = "recovery_code" /\ Len(twoFactorCode) > 0
       \/ selectedMethod = "totp" /\ Len(twoFactorCode) = TotpLength
       \/ selectedMethod = "webauthn"

\* alternativeMethods (line 131).
alternativeMethods == SelectSeq(supportedMethods, LAMBDA m : m # selectedMethod)

\* Buffer.from(JSON.stringify(r), 'utf8').toString('base64') (lines 74-76).
JSONStringify(r) == <<"json", r>>
Base64Encode(s) == <<"base64">> \o s

---------------------------------------------------------------------------
\* The authentication promise and the calls that settle it, as the modal
\* uses them: one current promise, settled by the first call.
NoPromise == [state |-> "none", type |-> "", code |-> <<>>, error |-> ""]
PendingPromise == [state |-> "pending", type |-> "", code |-> <<>>, error |-> ""]
NoCall == [fn |-> "none", type |-> "", code |-> <<>>, error |-> ""]
NoToast == [variant |-> "none", message |-> ""]

\* prompt.resolveAuth(result): the first settlement of a promise wins; the
\* context closes the prompt.
resolveAuth(type, code) ==
    /\ promise' = IF promise.state = "pending"
                  THEN [state |-> "resolved", type |-> type, code |-> code, error |-> ""]
                  ELSE promise
    /\ prompt' = [prompt EXCEPT !.isOpen = FALSE]
    /\ lastAuthCall' = [fn |-> "resolveAuth", type |-> type, code |-> code, error |-> ""]

\* prompt.rejectAuth(error).
rejectAuth(error) ==
    /\ promise' = IF promise.state = "pending"
                  THEN [state |-> "rejected", type |-> "", code |-> <<>>, error |-> error]
                  ELSE promise
    /\ prompt' = [prompt EXCEPT !.isOpen = FALSE]
    /\ lastAuthCall' = [fn |-> "rejectAuth", type |-> "", code |-> <<>>, error |-> error]

InitPrompt == [isOpen |-> FALSE, supportedMethods |-> <<>>, allowRecovery |-> FALSE]

InitIm == [called |-> FALSE, hasList |-> TRUE, raw |-> <<>>, allowRecovery |-> TRUE,
           supported |-> <<>>, stored |-> Null, result |-> Undefined]

InitModal ==
    /\ prompt = InitPrompt
    /\ promise = NoPromise
    /\ selectedMethod = initialMethod(TRUE, supportedMethodsOf(<<>>, FALSE), preferredMethod)
    /\ twoFactorCode = <<>>
    /\ confirming = FALSE
    /\ webauthnInFlight = 0
    /\ staleInFlight = 0
    /\ toastShown = NoToast
    /\ lastAuthCall = NoCall
    /\ authCallCount = 0

InitUpdate ==
    /\ modified = FALSE
    /\ editPending = <<>>
    /\ deletePending = <<>>
    /\ deletesSent = 0
    /\ pushedRoutes = 0
    /\ errorsLogged = 0

Init ==
    /\ preferredMethod \in Methods \cup {Null}
    /\ InitModal
    /\ im = InitIm
    /\ InitUpdate
    /\ mode = "details"
    /\ updateId = "update-1"
    /\ lastOp = "init"

---------------------------------------------------------------------------
\* The effect of lines 62-66, run when the supportedMethods memo of lines
\* 50-54 was recomputed.
supportedMethodsEffect(recomputed, supported) ==
    selectedMethod' = IF recomputed /\ Len(supported) > 0
                      THEN initialMethod(TRUE, supported, preferredMethod)
                      ELSE selectedMethod

\* TwoFactorAuthenticationContext (lib/two-factor-authentication, modelled
\* from the modal's use of it): a protected action opens a prompt and its
\* promise. fresh says whether the prompt carries a new supportedMethods
\* array or the array of the previous prompt; the memo of lines 50-54 is
\* recomputed when the array or allowRecovery changed.
OpenPrompt ==
    /\ ~prompt.isOpen
    /\ \E raw \in MethodLists, allow \in BOOLEAN, fresh \in BOOLEAN :
        /\ ~fresh => raw = prompt.supportedMethods
        /\ prompt' = [isOpen |-> TRUE, supportedMethods |-> raw, allowRecovery |-> allow]
        /\ supportedMethodsEffect(fresh \/ allow # prompt.allowRecovery,
                                  supportedMethodsOf(raw, allow))
    /\ promise' = PendingPromise
    /\ lastAuthCall' = NoCall
    /\ authCallCount' = 0
    /\ staleInFlight' = webauthnInFlight
    /\ lastOp' = "open"
    /\ UNCHANGED <<twoFactorCode, confirming, webauthnInFlight, preferredMethod,
                   toastShown, im, updateVars>>

---------------------------------------------------------------------------
\* TwoFactorAuthenticationModal.

\* useWebAuthn up to its await (lines 68-73).
useWebAuthn ==
    /\ preferredMethod' = "webauthn"
    /\ confirming' = TRUE
    /\ twoFactorCode' = <<>>
    /\ webauthnInFlight' = webauthnInFlight + 1
    /\ UNCHANGED <<prompt, promise, selectedMethod, toastShown, lastAuthCall>>

\* useWebAuthn after startAuthentication returned response (lines 74-81, 85-87).
useWebAuthnFulfilled(response) ==
    /\ resolveAuth("webauthn", Base64Encode(JSONStringify(response)))
    /\ confirming' = FALSE
    /\ webauthnInFlight' = webauthnInFlight - 1
    /\ UNCHANGED <<selectedMethod, twoFactorCode, preferredMethod, toastShown>>

\* useWebAuthn after startAuthentication threw e (lines 82-87).
useWebAuthnRejected(message) ==
    /\ toastShown' = [variant |-> "error", message |-> message]
    /\ confirming' = FALSE
    /\ webauthnInFlight' = webauthnInFlight - 1
    /\ UNCHANGED <<prompt, promise, selectedMethod, twoFactorCode, preferredMethod,
                   lastAuthCall>>

\* cancel leaving the selected method as it is.
cancel_KeepsMethod ==
    /\ twoFactorCode' = <<>>
    /\ confirming' = FALSE
    /\ rejectAuth(TWO_FACTOR_AUTH_CANCELED)
    /\ UNCHANGED <<selectedMethod, webauthnInFlight, preferredMethod, toastShown>>

\* cancel (lines 90-95).
cancel ==
    /\ twoFactorCode' = <<>>
    /\ confirming' = FALSE
    /\ selectedMethod' = Null
    /\ rejectAuth(TWO_FACTOR_AUTH_CANCELED)
    /\ UNCHANGED <<webauthnInFlight, preferredMethod, toastShown>>

\* confirm reading the code after it was cleared.
confirm_CodeAfterClear ==
    /\ twoFactorCode' = <<>>
    /\ selectedMethod' = Null
    /\ preferredMethod' = IF selectedMethod # "recovery_code"
                          THEN selectedMethod
                          ELSE preferredMethod
    /\ resolveAuth(selectedMethod, <<>>)
    /\ confirming' = FALSE
    /\ UNCHANGED <<webauthnInFlight, toastShown>>

\* confirm storing the preference whatever the method is.
confirm_StoresRecovery ==
    /\ twoFactorCode' = <<>>
    /\ selectedMethod' = Null
    /\ preferredMethod' = selectedMethod
    /\ resolveAuth(selectedMethod, twoFactorCode)
    /\ confirming' = FALSE
    /\ UNCHANGED <<webauthnInFlight, toastShown>>

\* confirm (lines 97-113). The state updates of one handler are batched:
\* confirming ends FALSE.
confirm ==
    /\ twoFactorCode' = <<>>
    /\ selectedMethod' = Null
    /\ preferredMethod' = IF selectedMethod # "recovery_code"
                          THEN selectedMethod
                          ELSE preferredMethod
    /\ resolveAuth(selectedMethod, twoFactorCode)
    /\ confirming' = FALSE
    /\ UNCHANGED <<webauthnInFlight, toastShown>>

\* The Verify button (lines 218-222) with a WebAuthn method selected. The
\* button is disabled unless verifyBtnEnabled and shows as loading, not
\* clickable, while confirming.
ClickVerifyWebAuthn ==
    /\ prompt.isOpen /\ verifyBtnEnabled /\ ~confirming
    /\ selectedMethod = "webauthn"
    /\ webauthnInFlight < MaxInFlight
    /\ useWebAuthn
    /\ lastOp' = "useWebAuthn"
    /\ UNCHANGED <<staleInFlight, authCallCount, im, updateVars>>

\* The Verify button with a code method selected.
ClickVerifyConfirm ==
    /\ prompt.isOpen /\ verifyBtnEnabled /\ ~confirming
    /\ selectedMethod # "webauthn"
    /\ confirm
    /\ authCallCount' = authCallCount + 1
    /\ lastOp' = "confirm"
    /\ UNCHANGED <<staleInFlight, im, updateVars>>

\* Enter in the authenticator code input (lines 168-176, 260).
PressEnter ==
    /\ prompt.isOpen /\ selectedMethod = "totp" /\ ~confirming
    /\ confirm
    /\ authCallCount' = authCallCount + 1
    /\ lastOp' = "confirm"
    /\ UNCHANGED <<staleInFlight, im, updateVars>>

\* The browser's authenticator answers an attempt in flight: one started
\* under an earlier prompt (stale) or one of the current prompt.
WebAuthnFulfilled ==
    /\ \E stale \in BOOLEAN :
        /\ IF stale THEN staleInFlight > 0 ELSE webauthnInFlight > staleInFlight
        /\ staleInFlight' = IF stale THEN staleInFlight - 1 ELSE staleInFlight
        /\ authCallCount' = IF stale THEN authCallCount ELSE authCallCount + 1
    /\ \E response \in AuthenticationResponses : useWebAuthnFulfilled(response)
    /\ lastOp' = "webauthnFulfilled"
    /\ UNCHANGED <<im, updateVars>>

WebAuthnRejected ==
    /\ \E stale \in BOOLEAN :
        /\ IF stale THEN staleInFlight > 0 ELSE webauthnInFlight > staleInFlight
        /\ staleInFlight' = IF stale THEN staleInFlight - 1 ELSE staleInFlight
    /\ \E message \in WebAuthnErrors : useWebAuthnRejected(message)
    /\ lastOp' = "webauthnRejected"
    /\ UNCHANGED <<authCallCount, im, updateVars>>

\* Typing in the code input of the selected method (lines 164-176).
ChangeCode ==
    /\ prompt.isOpen /\ selectedMethod \in {"totp", "recovery_code"} /\ ~confirming
    /\ \E code \in Codes : twoFactorCode' = code
    /\ lastOp' = "setTwoFactorCode"
    /\ UNCHANGED <<prompt, promise, selectedMethod, confirming, webauthnInFlight,
                   staleInFlight, preferredMethod, toastShown, lastAuthCall,
                   authCallCount, im, updateVars>>

\* A link of the alternative methods list (lines 180-209).
SelectAlternative ==
    /\ prompt.isOpen /\ Len(supportedMethods) > 1
    /\ \E method \in Range(alternativeMethods) : selectedMethod' = method
    /\ lastOp' = "setSelectedMethod"
    /\ UNCHANGED <<prompt, promise, twoFactorCode, confirming, webauthnInFlight,
                   staleInFlight, preferredMethod, toastShown, lastAuthCall,
                   authCallCount, im, updateVars>>

\* onOpenChange(false) of the dialog (lines 136-140).
DialogClose ==
    /\ prompt.isOpen
    /\ cancel
    /\ authCallCount' = authCallCount + 1
    /\ lastOp' = "onOpenChange"
    /\ UNCHANGED <<staleInFlight, im, updateVars>>

\* handleRouteChange on the router's routeChangeStart (lines 117-123).
RouteChangeStart ==
    /\ cancel
    /\ authCallCount' = IF prompt.isOpen THEN authCallCount + 1 ELSE authCallCount
    /\ lastOp' = "routeChangeStart"
    /\ UNCHANGED <<staleInFlight, im, updateVars>>

Next ==
    \/ OpenPrompt
    \/ ClickVerifyWebAuthn
    \/ ClickVerifyConfirm
    \/ PressEnter
    \/ WebAuthnFulfilled
    \/ WebAuthnRejected
    \/ ChangeCode
    \/ SelectAlternative
    \/ DialogClose
    \/ RouteChangeStart

Spec == Init /\ [][Next]_vars

---------------------------------------------------------------------------
\* initialMethod on drawn inputs.

InitInitialMethod ==
    /\ preferredMethod = Null
    /\ InitModal
    /\ im = InitIm
    /\ InitUpdate
    /\ mode = "details"
    /\ updateId = "update-1"
    /\ lastOp = "init"

\* initialMethod called on a list, or on no list at all.
CallInitialMethod ==
    /\ \E hasList \in BOOLEAN, list \in MethodLists, stored \in Methods \cup {Null} :
        /\ ~hasList => list = <<>>
        /\ im' = [called |-> TRUE, hasList |-> hasList, raw |-> list,
                  allowRecovery |-> TRUE, supported |-> list, stored |-> stored,
                  result |-> initialMethod(hasList, list, stored)]
    /\ lastOp' = "initialMethod"
    /\ UNCHANGED <<modalVars, updateVars>>

\* The modal mounting on a prompt: useState(initialMethod(supportedMethods))
\* over the memo of lines 50-54 (line 58).
MountModal ==
    /\ \E raw \in MethodLists, allow \in BOOLEAN, stored \in Methods \cup {Null} :
        im' = [called |-> TRUE, hasList |-> TRUE, raw |-> raw,
               allowRecovery |-> allow, supported |-> supportedMethodsOf(raw, allow),
               stored |-> stored,
               result |-> initialMethod(TRUE, supportedMethodsOf(raw, allow), stored)]
    /\ lastOp' = "mount"
    /\ UNCHANGED <<modalVars, updateVars>>

NextInitialMethod ==
    \/ CallInitialMethod
    \/ MountModal

SpecInitialMethod == InitInitialMethod /\ [][NextInitialMethod]_vars

---------------------------------------------------------------------------
\* StyledUpdate.

\* Ids of updates, and the id of a form value that carries none.
UpdateIds == {"update-1", "update-2"}
NoId == Undefined
Titles == {"title", "edited"}

\* What EditUpdateForm submits: it may carry an id of its own or none.
FormUpdates == [id : UpdateIds \cup {NoId}, title : Titles]

\* s without its i-th element.
RemoveAt(s, i) == [j \in 1..(Len(s) - 1) |-> IF j < i THEN s[j] ELSE s[j + 1]]

\* The constructor (lines 358-364): compact shows the summary.
InitStyledUpdate ==
    /\ preferredMethod = Null
    /\ InitModal
    /\ im = InitIm
    /\ InitUpdate
    /\ \E compact \in BOOLEAN : mode = IF compact THEN "summary" ELSE "details"
    /\ updateId \in UpdateIds
    /\ lastOp = "init"

\* cancelEdit (lines 380-382).
cancelEdit ==
    /\ modified' = FALSE
    /\ mode' = "details"

\* edit (lines 384-386).
edit ==
    /\ modified' = FALSE
    /\ mode' = "edit"

\* toggleEdit (lines 388-390), the edit / cancel edit link of lines 453-459.
ToggleEdit ==
    /\ mode # "summary"
    /\ IF mode = "edit"
       THEN cancelEdit /\ lastOp' = "cancelEdit"
       ELSE edit /\ lastOp' = "edit"
    /\ UNCHANGED <<updateId, editPending, deletePending, deletesSent, pushedRoutes,
                   errorsLogged, modalVars, im>>

\* deleteUpdate sending the mutation whatever the confirmation dialog said.
deleteUpdate_NoConfirm(accepted) ==
    /\ deletePending' = Append(deletePending, updateId)
    /\ deletesSent' = deletesSent + 1
    /\ UNCHANGED <<mode, modified, updateId, editPending, pushedRoutes, errorsLogged>>

\* deleteUpdate up to its await (lines 392-396); accepted is what confirm()
\* returned.
deleteUpdate(accepted) ==
    IF ~accepted
    THEN UNCHANGED updateVars
    ELSE /\ deletePending' = Append(deletePending, updateId)
         /\ deletesSent' = deletesSent + 1
         /\ UNCHANGED <<mode, modified, updateId, editPending, pushedRoutes, errorsLogged>>

\* deleteUpdate after the mutation succeeded (line 397).
deleteUpdateFulfilled(i) ==
    /\ deletePending' = RemoveAt(deletePending, i)
    /\ pushedRoutes' = pushedRoutes + 1
    /\ UNCHANGED <<mode, modified, updateId, editPending, deletesSent, errorsLogged>>

\* deleteUpdate after the mutation failed: the catch of lines 398-400.
deleteUpdateRejected(i) ==
    /\ deletePending' = RemoveAt(deletePending, i)
    /\ errorsLogged' = errorsLogged + 1
    /\ UNCHANGED <<mode, modified, updateId, editPending, deletesSent, pushedRoutes>>

\* The delete link (lines 460-464).
DeleteClick ==
    /\ mode # "summary"
    /\ Len(deletePending) < MaxPending
    /\ deletesSent < MaxDeletes
    /\ \E accepted \in BOOLEAN :
        /\ deleteUpdate(accepted)
        /\ lastOp' = IF accepted THEN "deleteUpdate" ELSE "deleteDeclined"
    /\ UNCHANGED <<modalVars, im>>

DeleteFulfilled ==
    /\ \E i \in 1..Len(deletePending) : deleteUpdateFulfilled(i)
    /\ lastOp' = "deleteFulfilled"
    /\ UNCHANGED <<modalVars, im>>

DeleteRejected ==
    /\ \E i \in 1..Len(deletePending) : deleteUpdateRejected(i)
    /\ lastOp' = "deleteRejected"
    /\ UNCHANGED <<modalVars, im>>

\* save leaving edit mode without awaiting the mutation.
save_NoAwait(update) ==
    /\ editPending' = Append(editPending, [update EXCEPT !.id = updateId])
    /\ modified' = FALSE
    /\ mode' = "details"
    /\ UNCHANGED <<updateId, deletePending, deletesSent, pushedRoutes, errorsLogged>>

\* save up to its await (lines 403-406): the mutation of lines 594-600 is
\* sent with the id of props.update.
save(update) ==
    /\ editPending' = Append(editPending, [update EXCEPT !.id = updateId])
    /\ UNCHANGED <<mode, modified, updateId, deletePending, deletesSent,
                   pushedRoutes, errorsLogged>>

\* save after the mutation succeeded (lines 407-408).
saveFulfilled(i) ==
    /\ editPending' = RemoveAt(editPending, i)
    /\ modified' = FALSE
    /\ mode' = "details"
    /\ UNCHANGED <<updateId, deletePending, deletesSent, pushedRoutes, errorsLogged>>

\* save after the mutation failed: the await throws, nothing follows.
saveRejected(i) ==
    /\ editPending' = RemoveAt(editPending, i)
    /\ UNCHANGED <<mode, modified, updateId, deletePending, deletesSent,
                   pushedRoutes, errorsLogged>>

\* EditUpdateForm's onSubmit (lines 532-540), rendered in edit mode only.
SubmitEdit ==
    /\ mode = "edit"
    /\ Len(editPending) < MaxPending
    /\ \E update \in FormUpdates : save(update)
    /\ lastOp' = "save"
    /\ UNCHANGED <<modalVars, im>>

SaveFulfilled ==
    /\ \E i \in 1..Len(editPending) : saveFulfilled(i)
    /\ lastOp' = "saveFulfilled"
    /\ UNCHANGED <<modalVars, im>>

SaveRejected ==
    /\ \E i \in 1..Len(editPending) : saveRejected(i)
    /\ lastOp' = "saveRejected"
    /\ UNCHANGED <<modalVars, im>>

NextUpdate ==
    \/ ToggleEdit
    \/ DeleteClick
    \/ DeleteFulfilled
    \/ DeleteRejected
    \/ SubmitEdit
    \/ SaveFulfilled
    \/ SaveRejected

SpecUpdate == InitStyledUpdate /\ [][NextUpdate]_vars
---------------------------------------------------------------------------
\* Properties.

ResolveCall(type, code) == [fn |-> "resolveAuth", type |-> type, code |-> code, error |-> ""]
RejectCall(error) == [fn |-> "rejectAuth", type |-> "", code |-> <<>>, error |-> error]
Resolved(type, code) == [state |-> "resolved", type |-> type, code |-> code, error |-> ""]
Rejected(error) == [state |-> "rejected", type |-> "", code |-> <<>>, error |-> error]

\* C1: initialMethod returns null for no list, the only method of a
\* one-method list whatever is stored, and for two or more methods the
\* stored preference when it is in the list, otherwise the first method in
\* list order that is not recovery_code; the list the modal passes holds no
\* recovery_code unless the prompt allows recovery.
C1_InitialMethod ==
    im.called =>
        /\ ~im.hasList => im.result = Null
        /\ (im.hasList /\ Len(im.supported) = 1) => im.result = im.supported[1]
        /\ (im.hasList /\ Len(im.supported) >= 2) =>
              IF im.stored \in Range(im.supported)
              THEN im.result = im.stored
              ELSE \E i \in 1..Len(im.supported) :
                      /\ im.supported[i] # "recovery_code"
                      /\ \A j \in 1..(i - 1) : im.supported[j] = "recovery_code"
                      /\ im.result = im.supported[i]
        /\ ~im.allowRecovery => "recovery_code" \notin Range(im.supported)

\* C1 witness: the stored preference is in a list of two or more methods
\* whose first method is another one, and the preference is selected.
C1_Witness ==
    /\ im.called /\ im.hasList
    /\ Len(im.supported) >= 2
    /\ im.stored \in Range(im.supported)
    /\ im.supported[1] \notin {im.stored, "recovery_code"}
    /\ im.result = im.stored

\* C2: a confirm step happens on a totp or recovery_code selection, calls
\* resolveAuth with exactly the method and the code of the moment, which
\* resolves the pending promise with them, and leaves the code empty, no
\* method selected and confirming false.
C2_ConfirmResolves ==
    [][lastOp' = "confirm" =>
        /\ selectedMethod \in {"totp", "recovery_code"}
        /\ promise.state = "pending"
        /\ lastAuthCall' = ResolveCall(selectedMethod, twoFactorCode)
        /\ promise' = Resolved(selectedMethod, twoFactorCode)
        /\ twoFactorCode' = <<>>
        /\ selectedMethod' = Null
        /\ confirming' = FALSE]_vars

\* C2 witness: a recovery code was confirmed and the promise carries it.
C2_Witness ==
    /\ lastOp = "confirm"
    /\ promise.state = "resolved"
    /\ promise.type = "recovery_code"
    /\ Len(promise.code) > 0
    /\ twoFactorCode = <<>> /\ selectedMethod = Null /\ ~confirming

\* C3: closing the open dialog and a route change while the dialog is open
\* both call rejectAuth with TWO_FACTOR_AUTH_CANCELED, which rejects the
\* pending promise, and reset the code, confirming and the selected method.
C3_CancelRejects ==
    [][(prompt.isOpen /\ lastOp' \in {"onOpenChange", "routeChangeStart"}) =>
        /\ promise.state = "pending"
        /\ lastAuthCall' = RejectCall(TWO_FACTOR_AUTH_CANCELED)
        /\ promise' = Rejected(TWO_FACTOR_AUTH_CANCELED)
        /\ twoFactorCode' = <<>>
        /\ confirming' = FALSE
        /\ selectedMethod' = Null]_vars

\* C3 witness: a route change cancelled a prompt a WebAuthn attempt was
\* running for, as the first settlement of its promise.
C3_Witness ==
    /\ lastOp = "routeChangeStart"
    /\ authCallCount = 1
    /\ promise = Rejected(TWO_FACTOR_AUTH_CANCELED)
    /\ webauthnInFlight > 0
    /\ twoFactorCode = <<>> /\ selectedMethod = Null /\ ~confirming

\* C5: save sends editUpdate with the id of props.update and stays in edit
\* mode; the success of the mutation sets mode details and modified false;
\* its failure changes neither; and edit mode is left only by that success
\* or by cancelEdit.
C5_SaveLeavesEditOnSuccess ==
    [][/\ lastOp' = "save" =>
            /\ mode' = "edit" /\ mode = "edit"
            /\ Len(editPending') = Len(editPending) + 1
            /\ editPending'[Len(editPending')].id = updateId
       /\ lastOp' = "saveFulfilled" => (mode' = "details" /\ modified' = FALSE)
       /\ lastOp' = "saveRejected" => (mode' = mode /\ modified' = modified)
       /\ (mode = "edit" /\ mode' # "edit") => lastOp' \in {"saveFulfilled", "cancelEdit"}
      ]_vars

\* C5 witness: a mutation failed and the component is still in edit mode.
C5_Witness ==
    /\ lastOp = "saveRejected"
    /\ mode = "edit"
    /\ editPending = <<>>

\* C6: a declined confirmation sends nothing and changes nothing; a
\* deleteUpdate mutation is sent only by an accepted confirmation, with the
\* id of props.update; Router.pushRoute is called only when a mutation
\* succeeded; a failed mutation is caught and logged, navigates nowhere and
\* leaves the mode as it is.
C6_DeleteConfirmed ==
    [][/\ lastOp' = "deleteDeclined" => UNCHANGED updateVars
       /\ Len(deletePending') > Len(deletePending) =>
            /\ lastOp' = "deleteUpdate"
            /\ deletePending' = Append(deletePending, updateId)
       /\ lastOp' = "deleteUpdate" => Len(deletePending') > Len(deletePending)
       /\ pushedRoutes' # pushedRoutes =>
            /\ lastOp' = "deleteFulfilled"
            /\ Len(deletePending') < Len(deletePending)
       /\ lastOp' = "deleteRejected" =>
            /\ pushedRoutes' = pushedRoutes
            /\ errorsLogged' = errorsLogged + 1
       /\ lastOp' \in {"deleteDeclined", "deleteUpdate", "deleteFulfilled", "deleteRejected"} =>
            (mode' = mode /\ modified' = modified)
      ]_vars

\* C6 witness: a delete mutation failed in edit mode; the error was logged
\* and nothing navigated.
C6_Witness ==
    /\ lastOp = "deleteRejected"
    /\ errorsLogged = 1
    /\ pushedRoutes = 0
    /\ mode = "edit"

\* C7: a successful WebAuthn attempt calls resolveAuth with type webauthn
\* and the encoded assertion; a failed one calls neither resolveAuth nor
\* rejectAuth, leaves the promise and the selected method as they are and
\* shows an error toast; confirming is true while an attempt is in flight
\* and false once an attempt ended.
C7_WebAuthn ==
    [][/\ lastOp' = "webauthnFulfilled" =>
            /\ lastAuthCall'.fn = "resolveAuth"
            /\ lastAuthCall'.type = "webauthn"
            /\ \E r \in AuthenticationResponses :
                   lastAuthCall'.code = Base64Encode(JSONStringify(r))
       /\ lastOp' = "webauthnRejected" =>
            /\ lastAuthCall' = lastAuthCall /\ authCallCount' = authCallCount
            /\ promise' = promise
            /\ selectedMethod' = selectedMethod
            /\ toastShown'.variant = "error"
       /\ lastOp' \in {"webauthnFulfilled", "webauthnRejected"} => confirming' = FALSE
       /\ webauthnInFlight' > 0 => confirming'
      ]_vars

\* C8: confirm stores the selected method unless it is recovery_code;
\* starting a WebAuthn attempt stores webauthn; a cancellation stores
\* nothing; so the stored preference only ever changes to totp or webauthn.
C8_PreferredMethod ==
    [][/\ lastOp' = "confirm" =>
            preferredMethod' = IF selectedMethod = "recovery_code"
                               THEN preferredMethod ELSE selectedMethod
       /\ lastOp' = "useWebAuthn" => preferredMethod' = "webauthn"
       /\ lastOp' \in {"onOpenChange", "routeChangeStart"} =>
            preferredMethod' = preferredMethod
       /\ preferredMethod' # preferredMethod => preferredMethod' \in {"totp", "webauthn"}
      ]_vars

\* C8 witness: a recovery code was confirmed while totp stayed the stored
\* preference.
C8_Witness ==
    /\ lastOp = "confirm"
    /\ promise = Resolved("recovery_code", <<"1">>)
    /\ preferredMethod = "totp"

\* C9: for one opened prompt the modal calls resolveAuth or rejectAuth at
\* most once, counting the calls of the handlers of its open dialog
\* (confirm, dialog close, route change) and of the WebAuthn attempts
\* started under it.
C9_SettledAtMostOnce ==
    authCallCount <= 1

\* C10: whenever the modal is open on at least one supported method, the
\* selected method is one of the supported methods.
C10_SelectedIsSupported ==
    (prompt.isOpen /\ Len(supportedMethods) > 0) =>
        selectedMethod \in Range(supportedMethods)
====
